---- MODULE Spec2Model ----
(***************************************************************************)
(* Noteflow backend: the ingestion-and-retrieval core.                     *)
(*                                                                         *)
(*   AIService        (services/aiService.js)        credential rotation   *)
(*   VectorService    (services/vectorService.js)    vector store          *)
(*   DocumentProcessor(services/documentProcessor.js) processDocument      *)
(*                                                                         *)
(* Node runs every handler on one event loop: a handler runs without       *)
(* interruption up to its next `await`, so each action below is the code   *)
(* between two awaits.  The specifications share the variables:            *)
(*   KeySpec      concurrent generateText / generateEmbeddings calls       *)
(*   VectorSpec   the VectorService API under concurrent callers           *)
(*   ProcessSpec  one processDocument run with its provider calls          *)
(*   RouteSpec    upload, background processing and delete of a document   *)
(*   ChunkSpec    one call of chunkText                                    *)
(*   CosineSpec   one call of cosineSimilarity                             *)
(*   AnalyzerSpec one call of an LLM-backed analyzer                       *)
(*   ReadabilitySpec one call of calculateReadability                      *)
(*   ImageSpec    one call of extractFromImage                             *)
(***************************************************************************)
EXTENDS Integers, Sequences, FiniteSets, TLC

VARIABLES
    \* ---- AIService (aiService.js:4-37)
    geminiApiKeys,      \* this.geminiApiKeys: the configured credentials
    currentKeyIndex,    \* this.currentKeyIndex: the rotation pointer
    calls,              \* the generateText/generateEmbeddings calls in flight
    \* ---- VectorService (vectorService.js:13-20)
    sdkAvailable,       \* MilvusClient was loaded (vectorService.js:2-8)
    client,             \* this.client
    connected,          \* this.connected
    useFallback,        \* this.useFallback
    fallbackStorage,    \* this.fallbackStorage: Map documentId -> records
    tasks,              \* the VectorService calls in flight and their outcome
    latest,             \* history: per documentId, the last store or delete
                        \* call made since the store fell back
    \* ---- DocumentProcessor.processDocument (documentProcessor.js:379-490)
    run,                \* the processDocument invocation and its locals
    \* ---- routes/quiz.js and models/Document.js
    stored,             \* the document's record in the `documents` collection
    job,                \* the processDocumentAsync invocation of the document
    del,                \* the DELETE /:id request for the document
    \* ---- a function called on its own
    unit                \* the call: the function, its arguments, its progress

aiVars     == <<geminiApiKeys, currentKeyIndex, calls>>
vectorVars == <<sdkAvailable, client, connected, useFallback, fallbackStorage,
                tasks, latest>>
routeVars  == <<stored, job, del>>
vars       == <<geminiApiKeys, currentKeyIndex, calls, sdkAvailable, client,
                connected, useFallback, fallbackStorage, tasks, latest, run,
                stored, job, del, unit>>

Max(a, b) == IF a >= b THEN a ELSE b
Min(a, b) == IF a <= b THEN a ELSE b

(***************************************************************************)
(*                               AIService                                 *)
(***************************************************************************)

\* The constructor reads four GEMINI_API_KEY* variables and drops the unset ones.
NumKeySlots == 4
\* error.response?.status === 429
RateLimitStatus == 429

\* Callers that may hold a provider call at the same time (concurrent
\* processing runs and searches all share the one AIService instance).
Callers == {"c1", "c2"}

\* geminiApiKeys[currentKeyIndex] is undefined when no key is configured
Undefined == "undefined"
\* (n + 1) % 0 in JavaScript
NaNIndex == -1

\* What one axios.post can come back with: a well-formed 200, a 200 whose body
\* lacks the expected field (the code throws a plain Error, without .response),
\* a rate-limit answer, another HTTP error.
Responses == {"ok", "malformed", "http429", "http500"}

\* error.response?.status of the error caught for a response
ErrorStatus(resp) ==
    CASE resp = "http429" -> 429
      [] resp = "http500" -> 500
      [] OTHER            -> 0

IdleCall == [state |-> "idle", kind |-> "none", retryCount |-> 0,
             sent |-> <<>>, answers |-> <<>>, switched |-> 0]

\* getCurrentApiKey(): this.geminiApiKeys[this.currentKeyIndex]
getCurrentApiKey(keys, idx) ==
    IF idx + 1 \in DOMAIN keys THEN keys[idx + 1] ELSE Undefined

switchToNextKey_noWrap(idx, keys) == idx + 1

\* switchToNextKey(): (currentKeyIndex + 1) % geminiApiKeys.length
switchToNextKey(idx, keys) ==
    IF Len(keys) = 0 \/ idx = NaNIndex THEN NaNIndex ELSE (idx + 1) % Len(keys)

ShouldRetry_oneTooMany(resp, retryCount, keys) ==
    ErrorStatus(resp) = RateLimitStatus /\ retryCount < Len(keys)

\* the catch block's test: rate limited and more keys left
ShouldRetry(resp, retryCount, keys) ==
    ErrorStatus(resp) = RateLimitStatus /\ retryCount < Len(keys) - 1

\* The state of a call that has just sent a request (axios.post evaluated its
\* headers, reading the pointer, and the call awaits the answer).
Sending(call, kind, retryCount, keys, idx) ==
    [call EXCEPT !.state = "awaiting", !.kind = kind, !.retryCount = retryCount,
                 !.sent = Append(call.sent, getCurrentApiKey(keys, idx))]

\* generateText(prompt) / generateEmbeddings(text) is called: retryCount = 0
GenerateStart(c, kind) ==
    /\ calls[c].state = "idle"
    /\ calls' = [calls EXCEPT ![c] =
                    Sending(IdleCall, kind, 0, geminiApiKeys, currentKeyIndex)]
    /\ UNCHANGED <<geminiApiKeys, currentKeyIndex>>
    /\ UNCHANGED <<vectorVars, run, routeVars, unit>>

\* The awaited axios.post of call c settles with resp: the rest of the try block,
\* or the catch block (switch key and recurse, or throw).
AxiosSettles(c, resp) ==
    /\ calls[c].state = "awaiting"
    /\ LET call == [calls[c] EXCEPT !.answers = Append(@, resp)] IN
       IF resp = "ok"
       THEN /\ calls' = [calls EXCEPT ![c] = [call EXCEPT !.state = "returned"]]
            /\ UNCHANGED currentKeyIndex
       ELSE IF ShouldRetry(resp, call.retryCount, geminiApiKeys)
       THEN LET next == switchToNextKey(currentKeyIndex, geminiApiKeys) IN
            /\ currentKeyIndex' = next
            /\ calls' = [calls EXCEPT ![c] =
                            Sending([call EXCEPT !.switched = @ + 1], call.kind,
                                    call.retryCount + 1, geminiApiKeys, next)]
       ELSE /\ calls' = [calls EXCEPT ![c] = [call EXCEPT !.state = "threw"]]
            /\ UNCHANGED currentKeyIndex
    /\ UNCHANGED geminiApiKeys
    /\ UNCHANGED <<vectorVars, run, routeVars, unit>>

\* The caller takes the value or the error of its finished call.
CallTaken(c) ==
    /\ calls[c].state \in {"returned", "threw"}
    /\ calls' = [calls EXCEPT ![c] = IdleCall]
    /\ UNCHANGED <<geminiApiKeys, currentKeyIndex>>
    /\ UNCHANGED <<vectorVars, run, routeVars, unit>>

\* new AIService(): the keys the environment configures, the pointer at 0
AIConstructed(keySets) ==
    /\ geminiApiKeys \in keySets
    /\ currentKeyIndex = 0
    /\ calls = [c \in Callers |-> IdleCall]

\* zero to four keys may be set
KeySets == {[i \in 1..k |-> i] : k \in 0..NumKeySlots}

(***************************************************************************)
(*                             VectorService                               *)
(***************************************************************************)

\* The largest number of records the model lets one documentId hold.
MaxStored == 2
\* The largest `limit` a search is given.
MaxLimit == 2

DocIds == {"d1", "d2"}
\* searchSimilarChunks(query, documentId = null, ...): no document filter
NoDocument == "null"
\* Concurrent callers of the VectorService (requests, processing runs).
Tasks == {"t1", "t2"}

\* chunk.embedding: an array of numbers, or null (a chunk processed without
\* the embedding provider, documentProcessor.js:402,422).
Null == [null |-> TRUE, v |-> <<>>]
Vec(s) == [null |-> FALSE, v |-> s]

\* The chunk lists callers pass: two chunks with different embeddings, and a
\* chunk without embedding.
ChunkA == [content |-> "a", embedding |-> Vec(<<1, 0>>)]
ChunkB == [content |-> "b", embedding |-> Vec(<<-1, 1>>)]
ChunkN == [content |-> "a", embedding |-> Null]
ChunkLists == {<<ChunkA, ChunkB>>, <<ChunkN>>}
\* What generateEmbeddings(query) resolves to.
QueryEmbeddings == {Vec(<<1, 0>>), Vec(<<0, 1>>)}

\* ---- the Map this.fallbackStorage, in insertion order
MapHas(m, k) == \E i \in DOMAIN m : m[i].key = k
MapGet(m, k) == LET i == CHOOSE i \in DOMAIN m : m[i].key = k IN m[i].value
MapSet(m, k, val) ==
    IF MapHas(m, k)
    THEN [i \in DOMAIN m |-> IF m[i].key = k THEN [key |-> k, value |-> val] ELSE m[i]]
    ELSE Append(m, [key |-> k, value |-> val])
MapDelete_keeps(m, k) == m
MapDelete(m, k) == SelectSeq(m, LAMBDA e : e.key # k)
Records(m, k) == IF MapHas(m, k) THEN MapGet(m, k) ELSE <<>>

\* ---- scores: the number dot / sqrt(nn), NaN, or the TypeError of reading
\* .length of null
Num(dot, nn) == [kind |-> "num", dot |-> dot, nn |-> nn]
NaN == [kind |-> "nan", dot |-> 0, nn |-> 0]
Throws == [kind |-> "throw", dot |-> 0, nn |-> 0]

RECURSIVE Dot(_, _)
Dot(a, b) == IF a = <<>> THEN 0 ELSE a[1] * b[1] + Dot(Tail(a), Tail(b))

\* cosineSimilarity(vecA, vecB)
cosineSimilarity(vecA, vecB) ==
    IF vecA.null \/ vecB.null THEN Throws
    ELSE IF Len(vecA.v) # Len(vecB.v) THEN Num(0, 1)
    ELSE LET nn == Dot(vecA.v, vecA.v) * Dot(vecB.v, vecB.v)
         IN IF nn = 0 THEN NaN ELSE Num(Dot(vecA.v, vecB.v), nn)

\* x.score < y.score for two numbers: dot/sqrt(nn) compared through
\* sign(dot) * dot^2 / nn
Signed(s) == IF s.dot < 0 THEN 0 - s.dot * s.dot ELSE s.dot * s.dot
ScoreLess(x, y) == Signed(x) * y.nn < Signed(y) * x.nn

\* ---- results.sort((a, b) => b.score - a.score)
\* Array.prototype.sort is stable: with number scores the result is the stable
\* descending order.  With a NaN score the comparator is not consistent and the
\* order is implementation-defined: any permutation.
RECURSIVE InsertDesc(_, _)
InsertDesc(sorted, x) ==
    IF sorted = <<>> THEN <<x>>
    ELSE IF ScoreLess(sorted[1].score, x.score) THEN <<x>> \o sorted
    ELSE <<sorted[1]>> \o InsertDesc(Tail(sorted), x)
RECURSIVE StableSortDesc(_)
StableSortDesc(s) ==
    IF s = <<>> THEN <<>>
    ELSE InsertDesc(StableSortDesc(SubSeq(s, 1, Len(s) - 1)), s[Len(s)])
AllOrders(s) ==
    {[i \in DOMAIN s |-> s[p[i]]] :
        p \in {q \in [DOMAIN s -> DOMAIN s] : \A i, j \in DOMAIN s : q[i] = q[j] => i = j}}
SortByScore(s) ==
    IF \E i \in DOMAIN s : s[i].score.kind = "nan"
    THEN AllOrders(s) ELSE {StableSortDesc(s)}

\* storeChunksFallback(documentId, chunks): append to the document's records
storeChunksFallback(storage, documentId, chunks) ==
    LET existingChunks == Records(storage, documentId)
        newChunks == [index \in DOMAIN chunks |->
                        [content |-> chunks[index].content,
                         embedding |-> chunks[index].embedding,
                         document_id |-> documentId,
                         chunk_index |-> index - 1]]
    IN MapSet(storage, documentId, existingChunks \o newChunks)

\* the loops of searchChunksFallback: one result per chunk of every entry the
\* document filter lets through, in Map order
RECURSIVE Scan(_, _, _)
Scan(storage, queryEmbedding, documentId) ==
    IF storage = <<>> THEN <<>>
    ELSE LET entry == storage[1]
             mine == IF documentId # NoDocument /\ entry.key # documentId
                     THEN <<>>
                     ELSE [i \in DOMAIN entry.value |->
                            [content |-> entry.value[i].content,
                             score |-> cosineSimilarity(queryEmbedding,
                                                        entry.value[i].embedding),
                             documentId |-> entry.value[i].document_id,
                             chunkIndex |-> entry.value[i].chunk_index]]
         IN mine \o Scan(Tail(storage), queryEmbedding, documentId)

searchChunksFallback_noFilter(storage, queryEmbedding, documentId, limit) ==
    LET results == Scan(storage, queryEmbedding, NoDocument) IN
    IF \E i \in DOMAIN results : results[i].score.kind = "throw"
    THEN {[threw |-> TRUE, results |-> <<>>]}
    ELSE {[threw |-> FALSE, results |-> SubSeq(r, 1, Min(limit, Len(r)))] :
            r \in SortByScore(results)}

\* searchChunksFallback(query, documentId, limit) once the query embedding is
\* there: the outcomes it can have (it throws when cosineSimilarity throws)
searchChunksFallback(storage, queryEmbedding, documentId, limit) ==
    LET results == Scan(storage, queryEmbedding, documentId) IN
    IF \E i \in DOMAIN results : results[i].score.kind = "throw"
    THEN {[threw |-> TRUE, results |-> <<>>]}
    ELSE {[threw |-> FALSE, results |-> SubSeq(r, 1, Min(limit, Len(r)))] :
            r \in SortByScore(results)}

\* ---- the calls in flight
IdleTask == [phase |-> "idle", op |-> "none", doc |-> NoDocument, chunks |-> <<>>,
             limit |-> 0, viaFallback |-> FALSE, queryEmbedding |-> Null,
             filter |-> NoDocument, results |-> <<>>, caught |-> "none"]

\* history entries
NoCall == [op |-> "none", chunks |-> <<>>]
Stored(chunks) == [op |-> "store", chunks |-> chunks]
Deleted == [op |-> "delete", chunks |-> <<>>]
Returned(task) == [task EXCEPT !.phase = "returned"]
\* the call rejects; `caught` is the error its catch block caught
Threw(task, caught) == [task EXCEPT !.phase = "threw", !.caught = caught]

\* the catch block of connect(): fall back to in-memory storage
ConnectFailed(t) ==
    /\ useFallback' = TRUE
    /\ fallbackStorage' = <<>>
    /\ connected' = TRUE
    /\ tasks' = [tasks EXCEPT ![t] = Returned([IdleTask EXCEPT !.op = "connect"])]
    /\ latest' = [d \in DocIds |-> NoCall]

\* connect() is called: without the SDK it throws at once; with it the client
\* is created and client.connect() awaited
connect(t) ==
    /\ IF ~sdkAvailable
       THEN ConnectFailed(t) /\ UNCHANGED client
       ELSE /\ client' = "client"
            /\ tasks' = [tasks EXCEPT ![t] =
                            [IdleTask EXCEPT !.op = "connect", !.phase = "connecting"]]
            /\ UNCHANGED <<connected, useFallback, fallbackStorage, latest>>
    /\ UNCHANGED sdkAvailable

\* a caller outside the model's routes calls connect()
Connect(t) ==
    tasks[t].phase = "idle" /\ connect(t) /\ UNCHANGED <<aiVars, run, routeVars, unit>>

ClientConnectSettles_resetsFallback(t, ok) ==
    /\ tasks[t].phase = "connecting"
    /\ IF ok
       THEN /\ connected' = TRUE
            /\ useFallback' = FALSE
            /\ tasks' = [tasks EXCEPT ![t].phase = "ensuring"]
            /\ UNCHANGED <<fallbackStorage, latest>>
       ELSE ConnectFailed(t)
    /\ UNCHANGED <<sdkAvailable, client>>
    /\ UNCHANGED <<aiVars, run, routeVars, unit>>

\* the awaited client.connect() settles: connected = true and ensureCollection()
\* is awaited, or the catch block runs
ClientConnectSettles(t, ok) ==
    /\ tasks[t].phase = "connecting"
    /\ IF ok
       THEN /\ connected' = TRUE
            /\ tasks' = [tasks EXCEPT ![t].phase = "ensuring"]
            /\ UNCHANGED <<useFallback, fallbackStorage, latest>>
       ELSE ConnectFailed(t)
    /\ UNCHANGED <<sdkAvailable, client>>
    /\ UNCHANGED <<aiVars, run, routeVars, unit>>

\* ensureCollection() catches its own errors: connect() returns either way
EnsureCollectionSettles(t) ==
    /\ tasks[t].phase = "ensuring"
    /\ tasks' = [tasks EXCEPT ![t] = Returned(@)]
    /\ UNCHANGED <<sdkAvailable, client, connected, useFallback, fallbackStorage, latest>>
    /\ UNCHANGED <<aiVars, run, routeVars, unit>>

\* room for `chunks` more records under documentId
Fits(documentId, chunks) ==
    Len(Records(fallbackStorage, documentId)) + Len(chunks) <= MaxStored

\* storeDocumentChunks(documentId, chunks) is called: the fallback branch
\* returns at once, the other awaits client.insert
storeDocumentChunks(t, documentId, chunks) ==
    /\ LET task == [IdleTask EXCEPT !.op = "store", !.doc = documentId,
                                    !.chunks = chunks] IN
       IF useFallback \/ client = "null"
       THEN /\ Fits(documentId, chunks)
            /\ fallbackStorage' = storeChunksFallback(fallbackStorage, documentId, chunks)
            /\ tasks' = [tasks EXCEPT ![t] =
                            Returned([task EXCEPT !.viaFallback = TRUE])]
            /\ latest' = IF useFallback
                         THEN [latest EXCEPT ![documentId] = Stored(chunks)]
                         ELSE latest
       ELSE /\ tasks' = [tasks EXCEPT ![t] = [task EXCEPT !.phase = "inserting"]]
            /\ UNCHANGED <<fallbackStorage, latest>>
    /\ UNCHANGED <<sdkAvailable, client, connected, useFallback>>

\* a caller outside the model's routes calls storeDocumentChunks
StoreDocumentChunks(t, documentId, chunks) ==
    /\ tasks[t].phase = "idle"
    /\ storeDocumentChunks(t, documentId, chunks)
    /\ UNCHANGED <<aiVars, run, routeVars, unit>>

\* the awaited client.insert settles; on failure the catch block stores in the
\* fallback storage if the service has fallen back meanwhile, else it throws
InsertSettles(t, ok) ==
    /\ tasks[t].phase = "inserting"
    /\ IF ok
       THEN /\ tasks' = [tasks EXCEPT ![t] = Returned(@)]
            /\ UNCHANGED <<fallbackStorage, latest>>
       ELSE IF useFallback
       THEN /\ Fits(tasks[t].doc, tasks[t].chunks)
            /\ fallbackStorage' =
                    storeChunksFallback(fallbackStorage, tasks[t].doc, tasks[t].chunks)
            /\ tasks' = [tasks EXCEPT ![t] = Returned([@ EXCEPT !.viaFallback = TRUE])]
            /\ latest' = [latest EXCEPT ![tasks[t].doc] = Stored(tasks[t].chunks)]
       ELSE /\ tasks' = [tasks EXCEPT ![t] = Threw(@, "client.insert rejected")]
            /\ UNCHANGED <<fallbackStorage, latest>>
    /\ UNCHANGED <<sdkAvailable, client, connected, useFallback>>
    /\ UNCHANGED <<aiVars, run, routeVars, unit>>

\* searchSimilarChunks(query, documentId, limit) is called: either branch first
\* awaits aiService.generateEmbeddings(query)
SearchSimilarChunks(t, documentId, limit) ==
    /\ tasks[t].phase = "idle"
    /\ tasks' = [tasks EXCEPT ![t] =
                    [IdleTask EXCEPT !.op = "search", !.phase = "embedding",
                                     !.doc = documentId, !.limit = limit,
                                     !.viaFallback = useFallback]]
    /\ UNCHANGED <<sdkAvailable, client, connected, useFallback, fallbackStorage, latest>>
    /\ UNCHANGED <<aiVars, run, routeVars, unit>>

\* generateEmbeddings(query) rejects: the search throws
QueryEmbeddingFails(t) ==
    /\ tasks[t].phase = "embedding"
    /\ tasks' = [tasks EXCEPT ![t] = Threw(@, "generateEmbeddings rejected")]
    /\ UNCHANGED <<sdkAvailable, client, connected, useFallback, fallbackStorage, latest>>
    /\ UNCHANGED <<aiVars, run, routeVars, unit>>

\* generateEmbeddings(query) resolves.  Fallback branch: scan, sort, slice and
\* return (or throw).  Other branch: client.search is called, a TypeError when
\* client is null, and awaited otherwise.
QueryEmbeddingSettles(t, queryEmbedding) ==
    /\ tasks[t].phase = "embedding"
    /\ LET task == [tasks[t] EXCEPT !.queryEmbedding = queryEmbedding] IN
       IF task.viaFallback
       THEN \E out \in searchChunksFallback(fallbackStorage, queryEmbedding,
                                            task.doc, task.limit) :
               tasks' = [tasks EXCEPT ![t] =
                            IF out.threw
                            THEN Threw(task, "TypeError")
                            ELSE Returned([task EXCEPT !.results = out.results])]
       ELSE IF client = "null"
       THEN tasks' = [tasks EXCEPT ![t] = Threw(task, "TypeError")]
       ELSE tasks' = [tasks EXCEPT ![t] =
                        [task EXCEPT !.phase = "searching", !.filter = task.doc]]
    /\ UNCHANGED <<sdkAvailable, client, connected, useFallback, fallbackStorage, latest>>
    /\ UNCHANGED <<aiVars, run, routeVars, unit>>

\* the awaited client.search settles: its records are mapped and returned (they
\* are the database's, for the filter and top_k the task carries), or it throws
ClientSearchSettles(t, ok) ==
    /\ tasks[t].phase = "searching"
    /\ tasks' = [tasks EXCEPT ![t] =
                    IF ok THEN Returned(@) ELSE Threw(@, "client.search rejected")]
    /\ UNCHANGED <<sdkAvailable, client, connected, useFallback, fallbackStorage, latest>>
    /\ UNCHANGED <<aiVars, run, routeVars, unit>>

\* deleteDocumentChunks(documentId) is called: the fallback branch deletes the
\* Map entry and returns; the other calls client.delete, a TypeError when client
\* is null, and awaits it otherwise
deleteDocumentChunks(t, documentId) ==
    /\ LET task == [IdleTask EXCEPT !.op = "delete", !.doc = documentId] IN
       IF useFallback
       THEN /\ fallbackStorage' = MapDelete(fallbackStorage, documentId)
            /\ tasks' = [tasks EXCEPT ![t] = Returned([task EXCEPT !.viaFallback = TRUE])]
            /\ latest' = [latest EXCEPT ![documentId] = Deleted]
       ELSE /\ tasks' = [tasks EXCEPT ![t] =
                            IF client = "null" THEN Threw(task, "TypeError")
                            ELSE [task EXCEPT !.phase = "deleting"]]
            /\ UNCHANGED <<fallbackStorage, latest>>
    /\ UNCHANGED <<sdkAvailable, client, connected, useFallback>>

\* a caller outside the model's routes calls deleteDocumentChunks
DeleteDocumentChunks(t, documentId) ==
    /\ tasks[t].phase = "idle"
    /\ deleteDocumentChunks(t, documentId)
    /\ UNCHANGED <<aiVars, run, routeVars, unit>>

\* the awaited client.delete settles
ClientDeleteSettles(t, ok) ==
    /\ tasks[t].phase = "deleting"
    /\ tasks' = [tasks EXCEPT ![t] =
                    IF ok THEN Returned(@) ELSE Threw(@, "client.delete rejected")]
    /\ UNCHANGED <<sdkAvailable, client, connected, useFallback, fallbackStorage, latest>>
    /\ UNCHANGED <<aiVars, run, routeVars, unit>>

\* the caller takes the value or the error of its finished call
TaskTaken(t) ==
    /\ tasks[t].phase \in {"returned", "threw"}
    /\ tasks' = [tasks EXCEPT ![t] = IdleTask]
    /\ UNCHANGED <<sdkAvailable, client, connected, useFallback, fallbackStorage, latest>>
    /\ UNCHANGED <<aiVars, run, routeVars, unit>>

\* new VectorService(); MilvusClient is set or not when the module loads
VectorConstructed(sdk) ==
    /\ sdkAvailable \in sdk
    /\ client = "null"
    /\ connected = FALSE
    /\ useFallback = FALSE
    /\ fallbackStorage = <<>>
    /\ tasks = [t \in Tasks |-> IdleTask]
    /\ latest = [d \in DocIds |-> NoCall]

\* processDocument's result and the state of a run that has not been started
NoResult == [kind |-> "none", error |-> <<>>, chunks |-> <<>>, subject |-> "none",
             keywords |-> "none", summary |-> "none"]

IdleRun == [pc |-> "idle", fileType |-> "none", source |-> "none", chunks |-> <<>>,
            i |-> 0, embedding |-> "null", keywords |-> "none",
            processedChunks |-> <<>>, failed |-> {}, subject |-> "none",
            docKeywords |-> "none", result |-> NoResult]

\* ---- models/Document.js: the record of a document, in the collection or as
\* the Document object a route holds; processingError <<>> is null
NoRecord == [exists |-> FALSE, fileType |-> "none", processingStatus |-> "none",
             processingError |-> <<>>, extractedText |-> "", chunks |-> <<>>,
             isActive |-> FALSE]

IdleJob == [pc |-> "idle", document |-> NoRecord, source |-> "none",
            result |-> NoResult, error |-> <<>>]

IdleDel == [pc |-> "idle", document |-> NoRecord]

\* no function is being called on its own
NoUnit == [fn |-> "none"]

\* no document has been uploaded
NoUpload ==
    /\ stored = NoRecord
    /\ job = IdleJob
    /\ del = IdleDel

VectorNext ==
    \/ \E t \in Tasks : Connect(t)
    \/ \E t \in Tasks, ok \in BOOLEAN : ClientConnectSettles(t, ok)
    \/ \E t \in Tasks : EnsureCollectionSettles(t)
    \/ \E t \in Tasks, d \in DocIds, chunks \in ChunkLists :
          StoreDocumentChunks(t, d, chunks)
    \/ \E t \in Tasks, ok \in BOOLEAN : InsertSettles(t, ok)
    \/ \E t \in Tasks, d \in DocIds \cup {NoDocument}, limit \in 1..MaxLimit :
          SearchSimilarChunks(t, d, limit)
    \/ \E t \in Tasks : QueryEmbeddingFails(t)
    \/ \E t \in Tasks, q \in QueryEmbeddings : QueryEmbeddingSettles(t, q)
    \/ \E t \in Tasks, ok \in BOOLEAN : ClientSearchSettles(t, ok)
    \/ \E t \in Tasks, d \in DocIds : DeleteDocumentChunks(t, d)
    \/ \E t \in Tasks, ok \in BOOLEAN : ClientDeleteSettles(t, ok)
    \/ \E t \in Tasks : TaskTaken(t)

VectorInit ==
    /\ VectorConstructed(BOOLEAN)
    /\ AIConstructed({[i \in 1..NumKeySlots |-> i]})
    /\ run = IdleRun
    /\ NoUpload
    /\ unit = NoUnit

VectorSpec == VectorInit /\ [][VectorNext]_vars

(***************************************************************************)
(*                   DocumentProcessor.processDocument                     *)
(***************************************************************************)

\* The largest number of chunks the chunker yields for a text of the model.
MaxChunks == 2

\* the caller id under which the run makes its provider calls
RunCaller == "c1"

FileTypes == {"pdf", "txt", "docx", "image", "pptx"}
\* what the file holds: something the parser throws on, only white space, text
Sources == {"unreadable", "blank", "text"}

Ok(text) == [threw |-> FALSE, text |-> text, message |-> <<>>]
Err(message) == [threw |-> TRUE, text |-> "", message |-> message]

\* extractFromPDF / extractFromTXT / extractFromDOCX / extractFromImage: the
\* trimmed text, or, when the parser throws or the text is blank, the error the
\* strategy's own catch block makes of it
extractFrom(label, source) ==
    IF source = "text" THEN Ok("text")
    ELSE Err(<<"Failed to extract text from", label>>)

\* the types extractText has a strategy for, and the strategies' names
SupportedTypes == {"pdf", "txt", "docx", "image"}
Strategies == {"PDF", "TXT file", "DOCX file", "image"}

\* the message of the error the catch block of extractText throws
ExtractionFailed(fileType) == <<"Failed to extract text from", fileType, "file">>

\* extractText(filePath, fileType): whatever is thrown inside, the unsupported
\* type included, leaves as "Failed to extract text from <fileType> file"
extractText(fileType, source) ==
    LET inner == CASE fileType = "pdf"   -> extractFrom("PDF", source)
                   [] fileType = "txt"   -> extractFrom("TXT file", source)
                   [] fileType = "docx"  -> extractFrom("DOCX file", source)
                   [] fileType = "image" -> extractFrom("image", source)
                   [] OTHER -> Err(<<"Unsupported file type:", fileType>>)
    IN IF inner.threw
       THEN Err(ExtractionFailed(fileType))
       ELSE inner

\* chunkText(extractedText): n chunks, told apart by their content
ChunkNames == <<"a", "b", "c", "d">>
ChunkerOutput(n) == [j \in 1..n |-> ChunkNames[j]]

\* the catch block at the end of processDocument: log and rethrow
Raises(r, message) ==
    [r EXCEPT !.pc = "threw",
              !.result = [NoResult EXCEPT !.kind = "error", !.error = message]]

\* processedChunks.push({...}) for chunk r.i, then the loop goes on: the next
\* chunk's generateEmbeddings, or extractSubjectWithGemini after the last
PushChunk(r, embedding, keywords, summary) ==
    [r EXCEPT !.processedChunks =
                  Append(@, [content |-> r.chunks[r.i], embedding |-> embedding,
                             keywords |-> keywords, summary |-> summary,
                             chunkIndex |-> r.i - 1,
                             processingMethod |->
                                 IF embedding # "null" THEN "gemini" ELSE "free"]),
              !.i = r.i + 1, !.embedding = "null", !.keywords = "none",
              !.pc = IF r.i < Len(r.chunks) THEN "embedding" ELSE "subject"]

ChunkDegraded_dropped(r) ==
    [r EXCEPT !.failed = @ \cup {r.i}, !.i = r.i + 1,
              !.pc = IF r.i < Len(r.chunks) THEN "embedding" ELSE "subject"]

ChunkDegraded_raises(r) ==
    Raises([r EXCEPT !.failed = @ \cup {r.i}], <<"Failed to generate embeddings">>)

\* catch (geminiError): keywords and summary by the free methods, embedding
\* left null, and the chunk is pushed
ChunkDegraded(r) ==
    PushChunk([r EXCEPT !.failed = @ \cup {r.i}], "null", "free", "free")

\* the provider call the run makes on reaching pc
CallAt(pc) ==
    CASE pc = "embedding" -> Sending(IdleCall, "embeddings", 0, geminiApiKeys,
                                     currentKeyIndex)
      [] pc \in {"chunkKeywords", "chunkSummary", "subject", "keywords", "summary"}
            -> Sending(IdleCall, "text", 0, geminiApiKeys, currentKeyIndex)
      [] pc \in {"returned", "threw"} -> calls[RunCaller]
      [] OTHER -> IdleCall

\* the run goes on to state r, making the provider call of its new pc
Goes(r) ==
    /\ run' = r
    /\ calls' = [calls EXCEPT ![RunCaller] = CallAt(r.pc)]
    /\ UNCHANGED <<geminiApiKeys, currentKeyIndex>>

\* a step of the run alone
Continue(r) == Goes(r) /\ UNCHANGED <<vectorVars, routeVars, unit>>

Settled == calls[RunCaller].state \in {"returned", "threw"}

\* what a rich analyzer (extractKeywordsWithGemini, generateSummaryWithGemini,
\* extractSubjectWithGemini) returns: the model's answer when generateText
\* returned and the answer could be used, the free method's result otherwise
Analyzed(usable) ==
    IF calls[RunCaller].state = "returned" /\ usable THEN "gemini" ELSE "free"

\* processDocument(documentId, filePath, fileType) is called and awaits
\* extractText
processDocument(fileType, source) ==
    /\ run.pc = "idle"
    /\ calls[RunCaller].state = "idle"
    /\ Goes([IdleRun EXCEPT !.pc = "extracting", !.fileType = fileType,
                            !.source = source])

\* a caller outside the model's routes calls processDocument
ProcessDocument(fileType, source) ==
    processDocument(fileType, source) /\ UNCHANGED <<vectorVars, routeVars, unit>>

\* extractText settles: rethrow its error, throw on empty text, or chunk the
\* text and start on the first chunk
ExtractTextSettles(n) ==
    /\ run.pc = "extracting"
    /\ LET extracted == extractText(run.fileType, run.source) IN
       IF extracted.threw
       THEN Continue(Raises(run, extracted.message))
       ELSE IF extracted.text = ""
       THEN Continue(Raises(run, <<"No text content found in document">>))
       ELSE Continue([run EXCEPT !.chunks = ChunkerOutput(n), !.i = 1,
                                 !.pc = "embedding"])

\* generateEmbeddings(chunk.content) settles: go on to the chunk's keywords, or
\* the catch block
EmbeddingSettles ==
    /\ run.pc = "embedding" /\ Settled
    /\ IF calls[RunCaller].state = "returned"
       THEN Continue([run EXCEPT !.embedding = "vector", !.pc = "chunkKeywords"])
       ELSE Continue(ChunkDegraded(run))

\* extractKeywordsWithGemini(chunk.content) returns
ChunkKeywordsSettle(usable) ==
    /\ run.pc = "chunkKeywords" /\ Settled
    /\ Continue([run EXCEPT !.keywords = Analyzed(usable), !.pc = "chunkSummary"])

\* generateSummaryWithGemini(chunk.content) returns and the chunk is pushed
ChunkSummarySettles(usable) ==
    /\ run.pc = "chunkSummary" /\ Settled
    /\ Continue(PushChunk(run, run.embedding, run.keywords, Analyzed(usable)))

\* extractSubjectWithGemini(extractedText) returns
SubjectSettles(usable) ==
    /\ run.pc = "subject" /\ Settled
    /\ Continue([run EXCEPT !.subject = Analyzed(usable), !.pc = "keywords"])

\* extractKeywordsWithGemini(extractedText, 20) returns
KeywordsSettle(usable) ==
    /\ run.pc = "keywords" /\ Settled
    /\ Continue([run EXCEPT !.docKeywords = Analyzed(usable), !.pc = "summary"])

\* generateSummaryWithGemini(extractedText, 5) returns and processDocument
\* returns its result
SummarySettles(usable) ==
    /\ run.pc = "summary" /\ Settled
    /\ Continue([run EXCEPT
            !.pc = "returned",
            !.result = [kind |-> "value", error |-> <<>>,
                        chunks |-> run.processedChunks, subject |-> run.subject,
                        keywords |-> run.docKeywords,
                        summary |-> Analyzed(usable)]])

\* the caller takes the result or the error
RunTaken ==
    /\ run.pc \in {"returned", "threw"}
    /\ Continue(IdleRun)

\* the awaited axios.post of the run's provider call settles
ProviderAnswers(resp) ==
    /\ run.pc \notin {"idle", "extracting", "returned", "threw"}
    /\ AxiosSettles(RunCaller, resp)

ProcessInit ==
    /\ AIConstructed(KeySets)
    /\ VectorConstructed({FALSE})
    /\ run = IdleRun
    /\ NoUpload
    /\ unit = NoUnit

ProcessNext ==
    \/ \E fileType \in FileTypes, source \in Sources : ProcessDocument(fileType, source)
    \/ \E n \in 1..MaxChunks : ExtractTextSettles(n)
    \/ \E resp \in Responses : ProviderAnswers(resp)
    \/ EmbeddingSettles
    \/ \E usable \in BOOLEAN : ChunkKeywordsSettle(usable)
    \/ \E usable \in BOOLEAN : ChunkSummarySettles(usable)
    \/ \E usable \in BOOLEAN : SubjectSettles(usable)
    \/ \E usable \in BOOLEAN : KeywordsSettle(usable)
    \/ \E usable \in BOOLEAN : SummarySettles(usable)
    \/ RunTaken

ProcessSpec == ProcessInit /\ [][ProcessNext]_vars

(***************************************************************************)
(*     routes/quiz.js: upload, processDocumentAsync and DELETE /:id        *)
(***************************************************************************)

\* the id of the uploaded document and the VectorService calls of the two routes
TheDocument == "d1"
JobTask == "t1"
DelTask == "t2"
\* the file types the upload filter and getFileType let through
UploadTypes == {"pdf", "txt", "docx", "image"}
\* the message of an error thrown by a Firestore call
FirestoreError == <<"Firestore error">>

\* new Document({...}) of the upload route, as document.save() writes it
NewDocument(fileType) ==
    [exists |-> TRUE, fileType |-> fileType, processingStatus |-> "uploaded",
     processingError |-> <<>>, extractedText |-> "", chunks |-> <<>>,
     isActive |-> TRUE]

\* document.updateProcessingStatus(status, error), before its save()
updateProcessingStatus(document, status, error) ==
    [document EXCEPT !.processingStatus = status,
                     !.processingError = IF error # <<>> THEN error ELSE @]

\* result.chunks as storeDocumentChunks reads them
AsVectorChunks(chunks) ==
    [j \in DOMAIN chunks |->
        [content |-> chunks[j].content,
         embedding |-> IF chunks[j].embedding = "null" THEN Null
                       ELSE Vec(<<1, 0>>)]]

\* the catch block of processDocumentAsync: look the document up again
JobCatches(error) == [job EXCEPT !.pc = "catchFinding", !.error = error]

\* the upload route's document.save() settles and processDocumentAsync is
\* called, which awaits Document.findById
Upload(fileType, source) ==
    /\ ~stored.exists
    /\ job.pc = "idle"
    /\ stored' = NewDocument(fileType)
    /\ job' = [IdleJob EXCEPT !.pc = "finding", !.source = source]
    /\ UNCHANGED <<aiVars, vectorVars, run, del, unit>>

\* findById settles: updateProcessingStatus('processing') and its save, or the
\* catch block
JobFindSettles(ok) ==
    /\ job.pc = "finding"
    /\ job' = IF ok
              THEN [job EXCEPT !.pc = "savingProcessing",
                               !.document = updateProcessingStatus(stored,
                                                "processing", <<>>)]
              ELSE JobCatches(FirestoreError)
    /\ UNCHANGED <<aiVars, vectorVars, run, stored, del, unit>>

\* the save of status processing settles: processDocument is called
JobSaveProcessingSettles(ok) ==
    /\ job.pc = "savingProcessing"
    /\ IF ok
       THEN /\ stored' = job.document
            /\ job' = [job EXCEPT !.pc = "processing"]
            /\ processDocument(job.document.fileType, job.source)
       ELSE /\ job' = JobCatches(FirestoreError)
            /\ UNCHANGED <<aiVars, run, stored>>
    /\ UNCHANGED <<vectorVars, del, unit>>

\* updateProcessingStatus('completed') and its save
JobCompletes(document) ==
    [job EXCEPT !.pc = "savingCompleted",
                !.document = updateProcessingStatus(document, "completed", <<>>)]

\* processDocument settles: the catch block, or the document takes the text
\* and, when there are chunks, connect() (if not connected) or
\* storeDocumentChunks is called
JobProcessDocumentSettles ==
    /\ job.pc = "processing"
    /\ run.pc \in {"returned", "threw"}
    /\ Goes(IdleRun)
    /\ IF run.pc = "threw"
       THEN /\ job' = JobCatches(run.result.error)
            /\ UNCHANGED vectorVars
       ELSE LET document == [job.document EXCEPT !.extractedText = "text"] IN
            IF Len(run.result.chunks) = 0
            THEN /\ job' = JobCompletes(document)
                 /\ UNCHANGED vectorVars
            ELSE IF ~connected
            THEN /\ job' = [job EXCEPT !.pc = "connecting", !.document = document,
                                       !.result = run.result]
                 /\ connect(JobTask)
            ELSE /\ job' = [job EXCEPT !.pc = "storing", !.document = document,
                                       !.result = run.result]
                 /\ storeDocumentChunks(JobTask, TheDocument,
                                        AsVectorChunks(run.result.chunks))
    /\ UNCHANGED <<stored, del, unit>>

\* connect() settles (it never rejects): storeDocumentChunks is called
JobConnectSettles ==
    /\ job.pc = "connecting"
    /\ tasks[JobTask].phase = "returned"
    /\ job' = [job EXCEPT !.pc = "storing"]
    /\ storeDocumentChunks(JobTask, TheDocument, AsVectorChunks(job.result.chunks))
    /\ UNCHANGED <<aiVars, run, stored, del, unit>>

\* storeDocumentChunks settles: the document takes the chunks whether it
\* returned or threw, then updateProcessingStatus('completed')
JobStoreSettles ==
    /\ job.pc = "storing"
    /\ tasks[JobTask].phase \in {"returned", "threw"}
    /\ job' = JobCompletes([job.document EXCEPT !.chunks = job.result.chunks])
    /\ tasks' = [tasks EXCEPT ![JobTask] = IdleTask]
    /\ UNCHANGED <<sdkAvailable, client, connected, useFallback, fallbackStorage,
                   latest>>
    /\ UNCHANGED <<aiVars, run, stored, del, unit>>

\* the save of status completed settles
JobSaveCompletedSettles(ok) ==
    /\ job.pc = "savingCompleted"
    /\ IF ok
       THEN stored' = job.document /\ job' = [job EXCEPT !.pc = "done"]
       ELSE job' = JobCatches(FirestoreError) /\ UNCHANGED stored
    /\ UNCHANGED <<aiVars, vectorVars, run, del, unit>>

\* findById of the catch block settles: updateProcessingStatus('failed',
\* error.message) and its save; an error here is logged and dropped
JobCatchFindSettles(ok) ==
    /\ job.pc = "catchFinding"
    /\ job' = IF ok
              THEN [job EXCEPT !.pc = "savingFailed",
                               !.document = updateProcessingStatus(stored, "failed",
                                                                   job.error)]
              ELSE [job EXCEPT !.pc = "done"]
    /\ UNCHANGED <<aiVars, vectorVars, run, stored, del, unit>>

\* the save of status failed settles; an error is logged and dropped
JobSaveFailedSettles(ok) ==
    /\ job.pc = "savingFailed"
    /\ stored' = IF ok THEN job.document ELSE stored
    /\ job' = [job EXCEPT !.pc = "done"]
    /\ UNCHANGED <<aiVars, vectorVars, run, del, unit>>

\* DELETE /:id arrives and awaits Document.findOne
DeleteRequest ==
    /\ del.pc \in {"idle", "done"}
    /\ stored.exists
    /\ del' = [IdleDel EXCEPT !.pc = "finding"]
    /\ UNCHANGED <<aiVars, vectorVars, run, stored, job, unit>>

\* findOne settles: deleteDocumentChunks is called, or the request answers 500
DeleteFindSettles(ok) ==
    /\ del.pc = "finding"
    /\ IF ok
       THEN /\ del' = [del EXCEPT !.pc = "deleting", !.document = stored]
            /\ deleteDocumentChunks(DelTask, TheDocument)
       ELSE /\ del' = [del EXCEPT !.pc = "done"]
            /\ UNCHANGED vectorVars
    /\ UNCHANGED <<aiVars, run, stored, job, unit>>

\* deleteDocumentChunks settles: isActive = false and save, or answer 500
DeleteChunksSettles ==
    /\ del.pc = "deleting"
    /\ tasks[DelTask].phase \in {"returned", "threw"}
    /\ del' = IF tasks[DelTask].phase = "returned"
              THEN [del EXCEPT !.pc = "saving", !.document.isActive = FALSE]
              ELSE [del EXCEPT !.pc = "done"]
    /\ tasks' = [tasks EXCEPT ![DelTask] = IdleTask]
    /\ UNCHANGED <<sdkAvailable, client, connected, useFallback, fallbackStorage,
                   latest>>
    /\ UNCHANGED <<aiVars, run, stored, job, unit>>

\* the save of the delete route settles
DeleteSaveSettles(ok) ==
    /\ del.pc = "saving"
    /\ stored' = IF ok THEN del.document ELSE stored
    /\ del' = [del EXCEPT !.pc = "done"]
    /\ UNCHANGED <<aiVars, vectorVars, run, job, unit>>

\* the credentials the server of the routes is configured with
RouteKeys == {<<1>>}

RouteInit ==
    /\ AIConstructed(RouteKeys)
    /\ VectorConstructed(BOOLEAN)
    /\ run = IdleRun
    /\ NoUpload
    /\ unit = NoUnit

RouteNext ==
    \/ \E fileType \in UploadTypes, source \in Sources : Upload(fileType, source)
    \/ \E ok \in BOOLEAN : JobFindSettles(ok)
    \/ \E ok \in BOOLEAN : JobSaveProcessingSettles(ok)
    \/ \E n \in 1..MaxChunks : ExtractTextSettles(n)
    \/ \E resp \in Responses : ProviderAnswers(resp)
    \/ EmbeddingSettles
    \/ \E usable \in BOOLEAN : ChunkKeywordsSettle(usable)
    \/ \E usable \in BOOLEAN : ChunkSummarySettles(usable)
    \/ \E usable \in BOOLEAN : SubjectSettles(usable)
    \/ \E usable \in BOOLEAN : KeywordsSettle(usable)
    \/ \E usable \in BOOLEAN : SummarySettles(usable)
    \/ JobProcessDocumentSettles
    \/ \E ok \in BOOLEAN : ClientConnectSettles(JobTask, ok)
    \/ EnsureCollectionSettles(JobTask)
    \/ JobConnectSettles
    \/ \E ok \in BOOLEAN : InsertSettles(JobTask, ok)
    \/ JobStoreSettles
    \/ \E ok \in BOOLEAN : JobSaveCompletedSettles(ok)
    \/ \E ok \in BOOLEAN : JobCatchFindSettles(ok)
    \/ \E ok \in BOOLEAN : JobSaveFailedSettles(ok)
    \/ DeleteRequest
    \/ \E ok \in BOOLEAN : DeleteFindSettles(ok)
    \/ \E ok \in BOOLEAN : ClientDeleteSettles(DelTask, ok)
    \/ DeleteChunksSettles
    \/ \E ok \in BOOLEAN : DeleteSaveSettles(ok)

RouteSpec == RouteInit /\ [][RouteNext]_vars

(***************************************************************************)
(*        KeySpec: concurrent calls of generateText/generateEmbeddings     *)
(***************************************************************************)

KeyInit ==
    /\ AIConstructed(KeySets)
    /\ VectorConstructed({FALSE})
    /\ run = IdleRun
    /\ NoUpload
    /\ unit = NoUnit

KeyNext ==
    \/ \E c \in Callers, kind \in {"text", "embeddings"} : GenerateStart(c, kind)
    \/ \E c \in Callers, resp \in Responses : AxiosSettles(c, resp)
    \/ \E c \in Callers : CallTaken(c)

KeySpec == KeyInit /\ [][KeyNext]_vars

(***************************************************************************)
(*                     DocumentProcessor.chunkText                         *)
(*                                                                         *)
(* A text is a sequence of characters.  ChunkSpec calls chunkText on a     *)
(* text and steps through its loop, one sentence per action.               *)
(***************************************************************************)

MaxSentences == 3

Space == " "
Terminators == {".", "!", "?"}

\* the sentences a text is written from
SentencePool ==
    { <<"a", ".">>,
      <<"b", " ", "c", ".">>,
      <<"d", "e", "f", " ", "g", ".">> }

RECURSIVE Flatten(_)
Flatten(seqs) ==
    IF seqs = <<>> THEN <<>> ELSE Head(seqs) \o Flatten(Tail(seqs))

\* a text: its sentences, one space between two of them
RECURSIVE Written(_)
Written(sentences) ==
    IF sentences = <<>> THEN <<>>
    ELSE IF Len(sentences) = 1 THEN Head(sentences)
    ELSE Head(sentences) \o <<Space>> \o Written(Tail(sentences))

Texts ==
    { Written(ss) : ss \in UNION { [1..n -> SentencePool] : n \in 0..MaxSentences } }

\* chunkSize and overlap as the program relates them: 0 < overlap < chunkSize
ChunkSizes == {3, 5, 8}
Overlaps == {1, 2, 3, 4}

\* String.prototype.trim
trim(s) ==
    LET inked == { k \in 1..Len(s) : s[k] # Space }
    IN  IF inked = {} THEN <<>>
        ELSE SubSeq(s, CHOOSE k \in inked : \A j \in inked : k <= j,
                       CHOOSE k \in inked : \A j \in inked : k >= j)

\* String.prototype.indexOf: the 0-based position of the first ch, or -1
indexOf(s, ch) ==
    IF \E k \in 1..Len(s) : s[k] = ch
    THEN (CHOOSE k \in 1..Len(s) : s[k] = ch /\ \A j \in 1..(k - 1) : s[j] # ch) - 1
    ELSE 0 - 1

\* String.prototype.slice(-n): the last n characters; slice(-0) is slice(0)
sliceLast(s, n) ==
    IF n = 0 \/ n >= Len(s) THEN s ELSE SubSeq(s, Len(s) - n + 1, Len(s))

\* the sentence tokenizer: a sentence ends at a terminator that whitespace
\* follows; the sentences come back trimmed, the whitespace between them gone
RECURSIVE tokenize(_, _)
tokenize(s, cur) ==
    IF s = <<>> THEN (IF trim(cur) = <<>> THEN <<>> ELSE <<trim(cur)>>)
    ELSE IF Head(s) = Space /\ cur # <<>> /\ cur[Len(cur)] \in Terminators
         THEN <<trim(cur)>> \o tokenize(Tail(s), <<>>)
         ELSE tokenize(Tail(s), Append(cur, Head(s)))

splitIntoSentences(text) == tokenize(text, <<>>)

getOverlapText_midword(text, overlapSize) ==
    IF Len(text) <= overlapSize THEN text ELSE sliceLast(text, overlapSize)

getOverlapText(text, overlapSize) ==
    IF Len(text) <= overlapSize THEN text
    ELSE LET overlapText == sliceLast(text, overlapSize)
             firstSpace == indexOf(overlapText, Space)
         IN  IF firstSpace > 0
             THEN SubSeq(overlapText, firstSpace + 2, Len(overlapText))
             ELSE overlapText

\* currentChunk.split(/[.!?]+/).filter(s => s.trim().length > 0).length
RECURSIVE pieces(_, _)
pieces(s, seen) ==
    IF s = <<>> THEN 0
    ELSE IF Head(s) \in Terminators THEN pieces(Tail(s), FALSE)
    ELSE IF Head(s) = Space THEN pieces(Tail(s), seen)
    ELSE (IF seen THEN 0 ELSE 1) + pieces(Tail(s), TRUE)

\* the record chunkText pushes for the buffer it closes
Chunk(currentChunk, chunkStart) ==
    [content |-> trim(currentChunk),
     start |-> chunkStart,
     end |-> chunkStart + Len(currentChunk),
     length |-> Len(currentChunk),
     sentences |-> pieces(currentChunk, FALSE)]

\* the test that closes the current chunk before a sentence is added
MustClose_bufferOnly(currentChunk, sentence, chunkSize) ==
    Len(currentChunk) > chunkSize /\ Len(currentChunk) > 0

MustClose(currentChunk, sentence, chunkSize) ==
    Len(currentChunk) + Len(sentence) > chunkSize /\ Len(currentChunk) > 0

\* chunkText(text, chunkSize, overlap) is called
ChunkTextCalled(text, chunkSize, overlap) ==
    [fn |-> "chunkText", pc |-> "called", text |-> text,
     chunkSize |-> chunkSize, overlap |-> overlap,
     sentences |-> <<>>, i |-> 0, currentChunk |-> <<>>, chunkStart |-> 0,
     chunks |-> <<>>, seeds |-> <<>>]

\* the text is split and the loop is entered; seeds remembers, for every
\* buffer chunkText starts, the overlapText and the i it started with
ChunkTextSplits ==
    /\ unit.fn = "chunkText"
    /\ unit.pc = "called"
    /\ unit' = [unit EXCEPT !.pc = "loop",
                            !.sentences = splitIntoSentences(unit.text),
                            !.seeds = <<[overlapText |-> <<>>, i |-> 0]>>]
    /\ UNCHANGED <<aiVars, vectorVars, run, routeVars>>

\* one turn of the loop over the sentences
ChunkTextTakesSentence ==
    /\ unit.fn = "chunkText"
    /\ unit.pc = "loop"
    /\ unit.i < Len(unit.sentences)
    /\ LET sentence == unit.sentences[unit.i + 1]
       IN  IF MustClose(unit.currentChunk, sentence, unit.chunkSize)
           THEN LET overlapText == getOverlapText(unit.currentChunk, unit.overlap)
                    currentChunk == overlapText \o sentence
                IN  unit' = [unit EXCEPT
                        !.chunks = Append(@, Chunk(unit.currentChunk, unit.chunkStart)),
                        !.currentChunk = currentChunk,
                        !.chunkStart = @ + Len(currentChunk) - Len(overlapText) - Len(sentence),
                        !.seeds = Append(@, [overlapText |-> overlapText, i |-> unit.i]),
                        !.i = @ + 1]
           ELSE unit' = [unit EXCEPT !.currentChunk = @ \o sentence, !.i = @ + 1]
    /\ UNCHANGED <<aiVars, vectorVars, run, routeVars>>

\* the loop is over: the last buffer is pushed unless it is blank
ChunkTextReturns ==
    /\ unit.fn = "chunkText"
    /\ unit.pc = "loop"
    /\ unit.i = Len(unit.sentences)
    /\ unit' = [unit EXCEPT
            !.pc = "returned",
            !.chunks = IF Len(trim(unit.currentChunk)) > 0
                       THEN Append(@, Chunk(unit.currentChunk, unit.chunkStart))
                       ELSE @]
    /\ UNCHANGED <<aiVars, vectorVars, run, routeVars>>

ChunkInit ==
    /\ AIConstructed(RouteKeys)
    /\ VectorConstructed({TRUE})
    /\ run = IdleRun
    /\ NoUpload
    /\ \E text \in Texts, chunkSize \in ChunkSizes, overlap \in Overlaps :
           /\ overlap < chunkSize
           /\ unit = ChunkTextCalled(text, chunkSize, overlap)

ChunkNext ==
    \/ ChunkTextSplits
    \/ ChunkTextTakesSentence
    \/ ChunkTextReturns

ChunkSpec == ChunkInit /\ [][ChunkNext]_vars


(***************************************************************************)
(*                     VectorService.cosineSimilarity                      *)
(*                                                                         *)
(* CosineSpec calls cosineSimilarity on two embeddings.                    *)
(***************************************************************************)

MaxDim == 2

Components == {0 - 1, 0, 1}

\* the embeddings of a chunk or of a query: arrays of up to MaxDim numbers,
\* or null
Embeddings ==
    {Null} \cup { Vec(s) : s \in UNION { [1..n -> Components] : n \in 0..MaxDim } }

CosineSimilarityCalled(vecA, vecB) ==
    [fn |-> "cosineSimilarity", pc |-> "called", vecA |-> vecA, vecB |-> vecB,
     result |-> NaN]

\* the call runs to its return or its throw
CosineSimilarityEnds ==
    /\ unit.fn = "cosineSimilarity"
    /\ unit.pc = "called"
    /\ LET result == cosineSimilarity(unit.vecA, unit.vecB)
       IN  unit' = [unit EXCEPT !.pc = IF result = Throws THEN "threw" ELSE "returned",
                                !.result = result]
    /\ UNCHANGED <<aiVars, vectorVars, run, routeVars>>

CosineInit ==
    /\ AIConstructed(RouteKeys)
    /\ VectorConstructed({TRUE})
    /\ run = IdleRun
    /\ NoUpload
    /\ \E vecA \in Embeddings, vecB \in Embeddings :
           unit = CosineSimilarityCalled(vecA, vecB)

CosineNext ==
    \/ CosineSimilarityEnds

CosineSpec == CosineInit /\ [][CosineNext]_vars

(***************************************************************************)
(*              DocumentProcessor: the analyzers of a text                 *)
(*                                                                         *)
(* AnalyzerSpec calls one of extractKeywordsWithGemini,                    *)
(* generateSummaryWithGemini and extractSubjectWithGemini on a text; the   *)
(* call awaits generateText and continues with its value or its error.     *)
(***************************************************************************)

AnalyzerCaller == "c1"
AnalyzerKeys == {<<1, 2>>}

Analyzers ==
    {"extractKeywordsWithGemini", "generateSummaryWithGemini", "extractSubjectWithGemini"}

AnalyzedTexts == {"text1", "text2"}

\* the second argument at the call sites: maxKeywords, maxSentences; none
\* for extractSubjectWithGemini
Arguments(fn) ==
    CASE fn = "extractKeywordsWithGemini" -> {10, 20}
      [] fn = "generateSummaryWithGemini" -> {3, 5}
      [] OTHER -> {0}

\* candidate.content.parts[0].text of a well-formed response: no text field,
\* blank text, text that is not JSON, or the text of a JSON value
Answers ==
    {"undefined", "blank", "prose", "array of strings", "array of numbers", "object"}

\* JSON.parse(response)
JSONParse(response) ==
    IF response \in {"array of strings", "array of numbers", "object"}
    THEN [threw |-> FALSE, value |-> response]
    ELSE [threw |-> TRUE, value |-> "SyntaxError"]

\* a value that has .map
IsArray(value) == value \in {"array of strings", "array of numbers"}

\* summary.trim()
Trimmed(answer) == IF answer = "blank" THEN "empty" ELSE answer

\* what an analyzer returns: the value of a free method for its arguments,
\* or a value made from the provider's answer
FromFree(method, text, n, caught) ==
    [source |-> "free", method |-> method, text |-> text, n |-> n, caught |-> caught]

FromGemini(value) ==
    [source |-> "gemini", method |-> "none", text |-> value, n |-> 0, caught |-> FALSE]

\* the free methods: the body of the try block, or the default of the catch
\* block when a library call in the body throws
extractKeywords(text, maxKeywords, libraryThrows) ==
    FromFree("extractKeywords", text, maxKeywords, libraryThrows)

generateSummary(text, maxSentences, libraryThrows) ==
    FromFree("generateSummary", text, maxSentences, libraryThrows)

extractSubject(text, libraryThrows) ==
    FromFree("extractSubject", text, 0, libraryThrows)

\* outcome: "threw" when generateText rejected, its value otherwise
extractKeywordsWithGemini(text, maxKeywords, outcome, libraryThrows) ==
    IF outcome = "threw" THEN extractKeywords(text, maxKeywords, libraryThrows)
    ELSE LET keywords == JSONParse(outcome)
         IN  IF keywords.threw \/ ~IsArray(keywords.value)
             THEN extractKeywords(text, maxKeywords, libraryThrows)
             ELSE FromGemini(keywords.value)

generateSummaryWithGemini(text, maxSentences, outcome, libraryThrows) ==
    IF outcome \in {"threw", "undefined"}
    THEN generateSummary(text, maxSentences, libraryThrows)
    ELSE FromGemini(Trimmed(outcome))

extractSubjectWithGemini(text, outcome, libraryThrows) ==
    IF outcome \in {"threw", "undefined"}
    THEN extractSubject(text, libraryThrows)
    ELSE FromGemini(Trimmed(outcome))

AnalyzerCalled(fn, text, n, libraryThrows) ==
    [fn |-> fn, pc |-> "called", text |-> text, n |-> n,
     libraryThrows |-> libraryThrows, outcome |-> "none", result |-> FromGemini("none")]

\* the analyzer builds its prompt and calls generateText, which sends its
\* request
AnalyzerCallsGenerateText ==
    /\ unit.fn \in Analyzers
    /\ unit.pc = "called"
    /\ calls[AnalyzerCaller].state = "idle"
    /\ unit' = [unit EXCEPT !.pc = "awaiting"]
    /\ calls' = [calls EXCEPT ![AnalyzerCaller] =
                    Sending(IdleCall, "text", 0, geminiApiKeys, currentKeyIndex)]
    /\ UNCHANGED <<geminiApiKeys, currentKeyIndex>>
    /\ UNCHANGED <<vectorVars, run, routeVars>>

\* generateText settled: the analyzer runs to its return
AnalyzerContinues(answer) ==
    /\ unit.fn \in Analyzers
    /\ unit.pc = "awaiting"
    /\ calls[AnalyzerCaller].state \in {"returned", "threw"}
    /\ LET outcome == IF calls[AnalyzerCaller].state = "threw" THEN "threw" ELSE answer
           result ==
               CASE unit.fn = "extractKeywordsWithGemini" ->
                        extractKeywordsWithGemini(unit.text, unit.n, outcome,
                                                  unit.libraryThrows)
                 [] unit.fn = "generateSummaryWithGemini" ->
                        generateSummaryWithGemini(unit.text, unit.n, outcome,
                                                  unit.libraryThrows)
                 [] OTHER ->
                        extractSubjectWithGemini(unit.text, outcome, unit.libraryThrows)
       IN  unit' = [unit EXCEPT !.pc = "returned", !.outcome = outcome,
                                !.result = result]
    /\ calls' = [calls EXCEPT ![AnalyzerCaller] = IdleCall]
    /\ UNCHANGED <<geminiApiKeys, currentKeyIndex>>
    /\ UNCHANGED <<vectorVars, run, routeVars>>

AnalyzerInit ==
    /\ AIConstructed(AnalyzerKeys)
    /\ VectorConstructed({TRUE})
    /\ run = IdleRun
    /\ NoUpload
    /\ \E fn \in Analyzers, text \in AnalyzedTexts, libraryThrows \in BOOLEAN :
           \E n \in Arguments(fn) : unit = AnalyzerCalled(fn, text, n, libraryThrows)

AnalyzerNext ==
    \/ AnalyzerCallsGenerateText
    \/ \E resp \in Responses : AxiosSettles(AnalyzerCaller, resp)
    \/ \E answer \in Answers : AnalyzerContinues(answer)

AnalyzerSpec == AnalyzerInit /\ [][AnalyzerNext]_vars

(***************************************************************************)
(*                 DocumentProcessor.calculateReadability                  *)
(*                                                                         *)
(* ReadabilitySpec calls calculateReadability on a text, given by its      *)
(* numbers of sentences, words and syllables.  The score is kept exact, as *)
(* the fraction ScoreTimes / Scale.                                        *)
(***************************************************************************)

MaxSentenceCount == 3
MaxWordCount == 12

\* 1000 * sentences * words * fleschScore, for
\* fleschScore = 206.835 - 1.015 * (words / sentences) - 84.6 * (syllables / words)
ScoreTimes(sentences, words, syllables) ==
    206835 * sentences * words - 1015 * words * words - 84600 * syllables * sentences

Scale(sentences, words) == 1000 * sentences * words

\* the if chain over fleschScore
Level(sentences, words, syllables) ==
    LET atLeast(n) == ScoreTimes(sentences, words, syllables) >= n * Scale(sentences, words)
    IN  IF atLeast(90) THEN "Very Easy"
        ELSE IF atLeast(80) THEN "Easy"
        ELSE IF atLeast(70) THEN "Fairly Easy"
        ELSE IF atLeast(60) THEN "Standard"
        ELSE IF atLeast(50) THEN "Fairly Difficult"
        ELSE IF atLeast(30) THEN "Difficult"
        ELSE "Very Difficult"

\* Math.round(fleschScore): floor(fleschScore + 0.5)
Rounded(sentences, words, syllables) ==
    (2 * ScoreTimes(sentences, words, syllables) + Scale(sentences, words))
        \div (2 * Scale(sentences, words))

\* calculateReadability(text): the try block, or the default of the catch
\* block when a library call throws
calculateReadability(sentences, words, syllables, libraryThrows) ==
    IF libraryThrows
    THEN [score |-> 50, level |-> "Standard"]
    ELSE [score |-> Rounded(sentences, words, syllables),
          level |-> Level(sentences, words, syllables)]

CalculateReadabilityCalled(sentences, words, syllables, libraryThrows) ==
    [fn |-> "calculateReadability", pc |-> "called", sentences |-> sentences,
     words |-> words, syllables |-> syllables, libraryThrows |-> libraryThrows,
     result |-> [score |-> 0, level |-> "none"]]

CalculateReadabilityReturns ==
    /\ unit.fn = "calculateReadability"
    /\ unit.pc = "called"
    /\ unit' = [unit EXCEPT
            !.pc = "returned",
            !.result = calculateReadability(unit.sentences, unit.words,
                                            unit.syllables, unit.libraryThrows)]
    /\ UNCHANGED <<aiVars, vectorVars, run, routeVars>>

\* a text of at least one sentence; every word has one or two syllables
ReadabilityInit ==
    /\ AIConstructed(RouteKeys)
    /\ VectorConstructed({TRUE})
    /\ run = IdleRun
    /\ NoUpload
    /\ \E sentences \in 1..MaxSentenceCount, words \in 1..MaxWordCount,
          libraryThrows \in BOOLEAN :
          \E syllables \in words..(2 * words) :
              /\ sentences <= words
              /\ unit = CalculateReadabilityCalled(sentences, words, syllables,
                                                   libraryThrows)

ReadabilityNext ==
    \/ CalculateReadabilityReturns

ReadabilitySpec == ReadabilityInit /\ [][ReadabilityNext]_vars

(***************************************************************************)
(*                   DocumentProcessor.extractFromImage                    *)
(*                                                                         *)
(* ImageSpec calls extractFromImage on an image file: the preprocessing by *)
(* sharp is awaited, then the OCR of the path it returned.                 *)
(***************************************************************************)

\* a file path: its name without the last extension, in pieces, and the
\* extension ("none" for a name without one)
ImagePaths ==
    [stem : {<<"scan">>, <<"scan", "_processed">>}, ext : {"png", "jpg", "none"}]

\* filePath.replace(/\.[^/.]+$/, '_processed.png')
ProcessedPath(filePath) ==
    IF filePath.ext = "none" THEN filePath
    ELSE [stem |-> Append(filePath.stem, "_processed"), ext |-> "png"]

preprocessImageForOCR_rethrows(filePath, ok) ==
    IF ok THEN [threw |-> FALSE, path |-> ProcessedPath(filePath)]
    ELSE [threw |-> TRUE, path |-> filePath]

\* preprocessImageForOCR(filePath) once sharp settled: the processed path, or
\* the original path from the catch block
preprocessImageForOCR(filePath, ok) ==
    IF ok THEN [threw |-> FALSE, path |-> ProcessedPath(filePath)]
    ELSE [threw |-> FALSE, path |-> filePath]

ExtractFromImageCalled(filePath, source) ==
    [fn |-> "extractFromImage", pc |-> "called", filePath |-> filePath,
     source |-> source, preprocessing |-> "none", processedImagePath |-> filePath,
     recognized |-> "none", result |-> Ok("")]

\* extractFromImage calls preprocessImageForOCR, which awaits sharp
ExtractFromImageStarts ==
    /\ unit.fn = "extractFromImage"
    /\ unit.pc = "called"
    /\ unit' = [unit EXCEPT !.pc = "preprocessing"]
    /\ UNCHANGED <<aiVars, vectorVars, run, routeVars>>

\* sharp settles; `processed` is what the processed image holds for the OCR.
\* Tesseract.recognize is called on the returned path, or the catch block of
\* extractFromImage takes the error
PreprocessSettles(ok, processed) ==
    /\ unit.fn = "extractFromImage"
    /\ unit.pc = "preprocessing"
    /\ ~ok => processed = unit.source
    /\ LET preprocessed == preprocessImageForOCR(unit.filePath, ok)
       IN  IF preprocessed.threw
           THEN unit' = [unit EXCEPT !.pc = "threw",
                                     !.preprocessing = "failed",
                                     !.result = extractFrom("image", "unreadable")]
           ELSE unit' = [unit EXCEPT
                            !.pc = "recognizing",
                            !.preprocessing = IF ok THEN "done" ELSE "failed",
                            !.processedImagePath = preprocessed.path,
                            !.recognized = IF preprocessed.path = unit.filePath
                                           THEN unit.source ELSE processed]
    /\ UNCHANGED <<aiVars, vectorVars, run, routeVars>>

\* Tesseract.recognize settles: the trimmed text, or the error of the catch
\* block when it throws or the text is blank
RecognizeSettles ==
    /\ unit.fn = "extractFromImage"
    /\ unit.pc = "recognizing"
    /\ LET result == extractFrom("image", unit.recognized)
       IN  unit' = [unit EXCEPT !.pc = IF result.threw THEN "threw" ELSE "returned",
                                !.result = result]
    /\ UNCHANGED <<aiVars, vectorVars, run, routeVars>>

ImageInit ==
    /\ AIConstructed(RouteKeys)
    /\ VectorConstructed({TRUE})
    /\ run = IdleRun
    /\ NoUpload
    /\ \E filePath \in ImagePaths, source \in Sources :
           unit = ExtractFromImageCalled(filePath, source)

ImageNext ==
    \/ ExtractFromImageStarts
    \/ \E ok \in BOOLEAN, processed \in Sources : PreprocessSettles(ok, processed)
    \/ RecognizeSettles

ImageSpec == ImageInit /\ [][ImageNext]_vars

(***************************************************************************)
(*                        Properties of the AIService                      *)
(***************************************************************************)

\* what C7 says of one call besides the number of its attempts: every attempt
\* but the last was answered by a rate limit, each retry came with one advance
\* of the pointer, and the call ends with a value after a good answer and with
\* an error after any other answer that is not retried
RetriesOnlyOnRateLimit(call, most) ==
    /\ \A i \in DOMAIN call.answers :
          i < Len(call.sent) => call.answers[i] = "http429"
    /\ call.state # "idle" => call.switched = Len(call.sent) - 1
    /\ call.state = "awaiting" => Len(call.answers) = Len(call.sent) - 1
    /\ call.state \in {"returned", "threw"} =>
          /\ Len(call.answers) = Len(call.sent)
          /\ call.state = "returned" <=> call.answers[Len(call.answers)] = "ok"
          /\ (call.state = "threw" /\ call.answers[Len(call.answers)] = "http429")
                => Len(call.sent) = most

\* C7 as stated: a call retries only after a rate limit, advancing the pointer
\* once per retry, and makes at most K attempts, K the number of credentials.
C7_AtMostKAttempts ==
    \A c \in Callers :
        /\ Len(calls[c].sent) <= Len(geminiApiKeys)
        /\ RetriesOnlyOnRateLimit(calls[c], Len(geminiApiKeys))

\* C7 amended: the same with at most max(K, 1) attempts: with no credential
\* configured the call still sends one request (without a key).
C7_AtMostKOrOneAttempt ==
    \A c \in Callers :
        /\ Len(calls[c].sent) <= Max(Len(geminiApiKeys), 1)
        /\ RetriesOnlyOnRateLimit(calls[c], Max(Len(geminiApiKeys), 1))

\* C7 witness: a generateEmbeddings call was rate limited on every one of
\* several credentials and ended with an error
C7_AllKeysRateLimited ==
    \E c \in Callers :
        /\ calls[c].kind = "embeddings" /\ calls[c].state = "threw"
        /\ Len(geminiApiKeys) >= 2
        /\ Len(calls[c].sent) = Len(geminiApiKeys)
        /\ \A i \in DOMAIN calls[c].answers : calls[c].answers[i] = "http429"

\* C8: whatever the interleaving of the calls sharing the pointer, no call
\* sends two of its attempts with the same credential.
C8_NoCredentialTwice ==
    \A c \in Callers :
        \A i, j \in DOMAIN calls[c].sent :
            calls[c].sent[i] = calls[c].sent[j] => i = j

(***************************************************************************)
(*                      Properties of the VectorService                    *)
(***************************************************************************)

\* the records a store call makes of `chunks` under documentId
RecordsOf(documentId, chunks) ==
    [i \in DOMAIN chunks |->
        [content |-> chunks[i].content, embedding |-> chunks[i].embedding,
         document_id |-> documentId, chunk_index |-> i - 1]]

\* task t takes a step that finishes its fallback search with the query
\* embedding in hand
FallbackSearchFinishes(t) ==
    /\ tasks[t].phase = "embedding"
    /\ tasks[t].viaFallback
    /\ tasks'[t].phase \in {"returned", "threw"}
    /\ tasks'[t].caught # "generateEmbeddings rejected"

\* C1: in fallback mode the records held for each documentId are exactly the
\* chunks passed to the most recent storeDocumentChunks call for that id (none
\* if a deleteDocumentChunks came later), so no two records of one document
\* carry the same chunk index.
C1_RecordsAreLatestStore ==
    useFallback =>
        \A d \in DocIds :
            LET records == Records(fallbackStorage, d) IN
            /\ records = RecordsOf(d, latest[d].chunks)
            /\ \A i, j \in DOMAIN records :
                  records[i].chunk_index = records[j].chunk_index => i = j

\* C2: once in fallback mode the store stays there: no step of connect, store,
\* search or delete, successful or not, clears useFallback, and every method
\* called from then on takes its fallback branch.
C2_FallbackIsPermanent ==
    [][useFallback =>
          /\ useFallback'
          /\ \A t \in Tasks :
                (tasks[t].phase = "idle"
                    /\ tasks'[t].op \in {"store", "search", "delete"})
                => tasks'[t].viaFallback]_vars

\* C2 witness: a connect() succeeds while the store is in fallback mode
C2_ConnectSucceedsInFallback ==
    useFallback /\ \E t \in Tasks : tasks[t].phase = "ensuring"

\* C3: in fallback mode, a search scoped to d that finishes after
\* deleteDocumentChunks(d) and before the next storeDocumentChunks(d, ...)
\* returns zero results.
C3_SearchAfterDeleteIsEmpty ==
    [][\A t \in Tasks :
          (/\ FallbackSearchFinishes(t)
           /\ tasks[t].doc \in DocIds
           /\ latest[tasks[t].doc].op = "delete")
          => tasks'[t].phase = "returned" /\ tasks'[t].results = <<>>]_vars

\* C3 witness: a search scoped to a deleted document has returned nothing while
\* the other document still holds records
C3_EmptySearchAfterDelete ==
    \E t \in Tasks, d \in DocIds :
        /\ useFallback
        /\ tasks[t].op = "search" /\ tasks[t].phase = "returned"
        /\ tasks[t].viaFallback /\ tasks[t].doc = d /\ tasks[t].results = <<>>
        /\ latest[d].op = "delete"
        /\ \E e \in DocIds : e # d /\ Records(fallbackStorage, e) # <<>>

\* C4: a search given a documentId d returns only records stored under d (in
\* the fallback branch; in the database branch the request carries the filter d).
C4_ScopedSearchReturnsOwnRecords ==
    \A t \in Tasks :
        (tasks[t].op = "search" /\ tasks[t].doc \in DocIds) =>
            /\ \A i \in DOMAIN tasks[t].results :
                  tasks[t].results[i].documentId = tasks[t].doc
            /\ tasks[t].phase = "searching" => tasks[t].filter = tasks[t].doc

\* C4 witness: a search scoped to one document has returned records while the
\* other document holds a record with the same content and embedding
C4_TwinRecordNotReturned ==
    \E t \in Tasks, d, e \in DocIds :
        /\ d # e
        /\ tasks[t].op = "search" /\ tasks[t].phase = "returned"
        /\ tasks[t].doc = d /\ tasks[t].results # <<>>
        /\ \E i \in DOMAIN Records(fallbackStorage, d),
              j \in DOMAIN Records(fallbackStorage, e) :
              /\ Records(fallbackStorage, d)[i].content
                    = Records(fallbackStorage, e)[j].content
              /\ Records(fallbackStorage, d)[i].embedding
                    = Records(fallbackStorage, e)[j].embedding

\* how often x occurs in s
Count(s, x) == Cardinality({i \in DOMAIN s : s[i] = x})

\* C5: a fallback search whose query embedding was obtained returns exactly
\* min(limit, number of candidates) records, in non-increasing order of score,
\* and no candidate left out scores strictly higher than a returned one.
C5_SearchReturnsTopLimit ==
    [][\A t \in Tasks :
          FallbackSearchFinishes(t) =>
             /\ tasks'[t].phase = "returned"
             /\ LET r == tasks'[t].results
                    candidates == Scan(fallbackStorage, tasks'[t].queryEmbedding,
                                       tasks[t].doc)
                IN /\ Len(r) = Min(tasks[t].limit, Len(candidates))
                   /\ \A i, j \in DOMAIN r :
                         i < j => ~ScoreLess(r[i].score, r[j].score)
                   /\ \A k \in DOMAIN candidates :
                         Count(r, candidates[k]) < Count(candidates, candidates[k])
                         => \A i \in DOMAIN r :
                               ~ScoreLess(r[i].score, candidates[k].score)]_vars

\* C6: deleteDocumentChunks(d) never throws on being called, whatever the state
\* of the service, and when it returns no record of d is left and the records
\* of the other documents are untouched.
C6_DeleteRemovesAndNeverRaises ==
    [][\A t \in Tasks :
          (tasks[t].phase = "idle" /\ tasks'[t].op = "delete") =>
             /\ tasks'[t].phase # "threw"
             /\ tasks'[t].phase = "returned" =>
                   /\ ~MapHas(fallbackStorage', tasks'[t].doc)
                   /\ \A d \in DocIds \ {tasks'[t].doc} :
                         Records(fallbackStorage', d) = Records(fallbackStorage, d)]_vars

(***************************************************************************)
(*                    Properties of processDocument                        *)
(***************************************************************************)

\* the run has text and is working through the chunks or the metadata
PastExtraction ==
    run.pc \in {"embedding", "chunkKeywords", "chunkSummary", "subject", "keywords",
                "summary", "returned"}

\* C9: a chunk whose generateEmbeddings failed is still delivered, with embedding
\* null and processingMethod 'free', and the run goes on: at every point of the
\* loop the chunks pushed so far are the chunker's chunks before the current
\* one, in the chunker's order and with the chunker's indexes, and
\* processDocument returns one chunk per chunk of the chunker.
C9_FailedEmbeddingKeepsChunk ==
    PastExtraction =>
        /\ Len(run.processedChunks) = run.i - 1
        /\ \A j \in 1..Len(run.processedChunks) :
              /\ run.processedChunks[j].content = run.chunks[j]
              /\ run.processedChunks[j].chunkIndex = j - 1
              /\ j \in run.failed =>
                    /\ run.processedChunks[j].embedding = "null"
                    /\ run.processedChunks[j].processingMethod = "free"
        /\ run.pc = "returned" =>
              /\ run.result.kind = "value"
              /\ run.result.chunks = run.processedChunks
              /\ Len(run.result.chunks) = Len(run.chunks)

\* a run returned two chunks although the embedding of the first one failed with
\* every credential rate limited
C9_FirstEmbeddingFailedBothReturned ==
    /\ run.pc = "returned"
    /\ Len(run.chunks) = 2
    /\ run.failed = {1}
    /\ Len(run.result.chunks) = 2
    /\ run.result.chunks[1].processingMethod = "free"
    /\ run.result.chunks[2].processingMethod = "gemini"

\* C10: processDocument raises exactly when extractText fails or yields empty
\* text: a run that raised carries one error and no chunks or metadata, its
\* extraction had failed, and a run whose extraction failed gets no further; no
\* failure of a provider call makes it raise.
C10_RaisesIffExtractionFails ==
    LET extracted == extractText(run.fileType, run.source)
        failedExtraction == extracted.threw \/ extracted.text = ""
    IN /\ run.pc = "threw" =>
             /\ failedExtraction
             /\ run.result = [NoResult EXCEPT !.kind = "error",
                                              !.error = run.result.error]
             /\ run.result.error # <<>>
             /\ run.processedChunks = <<>>
       /\ PastExtraction => ~failedExtraction
       /\ run.pc = "returned" => run.result.kind = "value" /\ run.result.error = <<>>

\* a run returned its result although generateEmbeddings failed for every chunk,
\* every rich analyzer fell back and its last generateText call threw
C10_ReturnedWithEveryProviderCallFailed ==
    /\ run.pc = "returned"
    /\ run.failed = 1..Len(run.chunks)
    /\ run.result.subject = "free"
    /\ run.result.keywords = "free"
    /\ run.result.summary = "free"
    /\ calls[RunCaller].state = "threw"

(***************************************************************************)
(*                 Properties of the document's lifecycle                  *)
(***************************************************************************)

\* the moves of processingStatus the lifecycle allows
LifecycleMoves ==
    {<<"uploaded", "processing">>, <<"processing", "completed">>,
     <<"processing", "failed">>}

\* C11: the processingStatus of the document's record is created as uploaded
\* and changes only uploaded -> processing -> completed or failed: nothing
\* leaves completed or failed, and neither is entered from uploaded.
C11_StatusFollowsLifecycle ==
    [][/\ ~stored.exists /\ stored'.exists => stored'.processingStatus = "uploaded"
       /\ stored.exists /\ stored'.processingStatus # stored.processingStatus
            => <<stored.processingStatus, stored'.processingStatus>>
                  \in LifecycleMoves]_vars

\* C12: a processing run that was started ends with the document's record in
\* status completed or failed: once processDocumentAsync has finished, and no
\* delete request has touched the record, nothing will write it any more, so
\* this is the status it keeps.
C12_FinishedRunLeavesTerminalStatus ==
    job.pc = "done" /\ del.pc = "idle" =>
        stored.processingStatus \in {"completed", "failed"}

\* every route of the model has finished
RoutesDone == job.pc = "done" /\ del.pc \in {"idle", "done"}

\* C13: when processDocument failed with a document-level error, the document
\* ends, once the routes have finished, with processingStatus failed and the
\* error's message as processingError; a failed record has a processingError,
\* and a completed record has text and at least one chunk.
C13_DocumentLevelErrorIsRecorded ==
    /\ RoutesDone /\ job.error \notin {<<>>, FirestoreError} =>
          /\ stored.processingStatus = "failed"
          /\ stored.processingError = job.error
    /\ stored.processingStatus = "failed" => stored.processingError # <<>>
    /\ stored.processingStatus = "completed" =>
          stored.extractedText # "" /\ Len(stored.chunks) >= 1

(***************************************************************************)
(*                       Properties of extractText                         *)
(***************************************************************************)

\* C14: extractText of a fileType it has no strategy for fails, and with an
\* error of its own: not the error it throws when the parser of a supported
\* type fails.
C14_UnsupportedTypeHasOwnError ==
    run.pc \in {"returned", "threw"} /\ run.fileType \notin SupportedTypes =>
        /\ run.pc = "threw"
        /\ run.result.error # ExtractionFailed(run.fileType)

\* C15: every strategy returns non-empty text or fails, and the failure on a
\* source without text is an error of its own, not the one of a parser failure,
\* also after extractText has passed it on.
C15_BlankSourceHasOwnError ==
    run.pc \in {"returned", "threw"} /\ run.fileType \in SupportedTypes =>
        /\ \A label \in Strategies, source \in Sources :
              extractFrom(label, source).threw \/ extractFrom(label, source).text # ""
        /\ run.source = "blank" =>
              /\ run.pc = "threw"
              /\ \A label \in Strategies :
                    extractFrom(label, "blank").message
                       # extractFrom(label, "unreadable").message
              /\ run.result.error # extractText(run.fileType, "unreadable").message

(***************************************************************************)
(*                        Properties of chunkText                          *)
(***************************************************************************)

ChunkTextReturned == unit.fn = "chunkText" /\ unit.pc = "returned"

\* chunk k without the overlapText its buffer was started with
WithoutOverlap(k) ==
    LET content == unit.chunks[k].content
        n == Len(unit.seeds[k].overlapText)
    IN  IF n >= Len(content) THEN <<>> ELSE SubSeq(content, n + 1, Len(content))

\* the chunks, each without its overlap prefix, put one after the other
RECURSIVE ReassembledFrom(_)
ReassembledFrom(k) ==
    IF k > Len(unit.chunks) THEN <<>> ELSE WithoutOverlap(k) \o ReassembledFrom(k + 1)

\* C16: when chunkText has returned, its chunks put one after the other,
\* each but the first without the overlap prefix copied from its
\* predecessor, are the text it was given: every sentence once, in order,
\* with the whitespace that separates the sentences.
C16_ChunksReassembleTheText ==
    ChunkTextReturned => ReassembledFrom(1) = unit.text

\* the part of chunk k that follows the overlapText its buffer started with
\* is made of whole sentences, the ones taken while the buffer was current
SentencesOf(k) ==
    LET from == unit.seeds[k].i + 1
        to == IF k < Len(unit.seeds) THEN unit.seeds[k + 1].i ELSE Len(unit.sentences)
    IN  SubSeq(unit.sentences, from, to)

IsSuffix(s, t) == Len(s) <= Len(t) /\ SubSeq(t, Len(t) - Len(s) + 1, Len(t)) = s

IsPrefix(s, t) == Len(s) <= Len(t) /\ SubSeq(t, 1, Len(s)) = s

\* the suffix s of t does not start inside a word
AtWordBoundary(s, t) ==
    \/ s = <<>>
    \/ s = t
    \/ s[1] = Space
    \/ t[Len(t) - Len(s)] = Space

\* C17: when chunkText has returned, every chunk after the first is a
\* suffix of its predecessor followed by the sentences of its own; the
\* suffix has at most `overlap` characters, is the whole predecessor when
\* the predecessor is no longer than `overlap`, and does not start inside a
\* word when the last `overlap` characters of the predecessor hold a space.
C17_NextChunkStartsWithOverlap ==
    ChunkTextReturned =>
        \A k \in 1..(Len(unit.chunks) - 1) :
            LET previous == unit.chunks[k].content
                next == unit.chunks[k + 1].content
                prefix == SubSeq(next, 1, Len(next) - Len(Flatten(SentencesOf(k + 1))))
            IN  /\ next = prefix \o Flatten(SentencesOf(k + 1))
                /\ IsSuffix(prefix, previous)
                /\ Len(prefix) <= unit.overlap
                /\ Len(previous) <= unit.overlap => prefix = previous
                /\ (\E j \in 1..Len(sliceLast(previous, unit.overlap)) :
                        sliceLast(previous, unit.overlap)[j] = Space)
                   => AtWordBoundary(prefix, previous)

\* a returned call whose second chunk starts after a space that lies inside
\* the last `overlap` characters of the first
C17_Witness ==
    /\ ChunkTextReturned
    /\ Len(unit.chunks) >= 2
    /\ Len(unit.chunks[1].content) > unit.overlap
    /\ unit.seeds[2].overlapText # <<>>
    /\ Len(unit.seeds[2].overlapText) < unit.overlap
    /\ IsPrefix(unit.seeds[2].overlapText, unit.chunks[2].content)

\* every buffer chunkText started became a chunk: its overlapText followed
\* by whole sentences, each sentence of the text in exactly one chunk
WholeSentences ==
    /\ Len(unit.chunks) = Len(unit.seeds)
    /\ \A k \in 1..Len(unit.chunks) :
           \E n \in 0..Len(unit.chunks[k].content) :
               /\ IsSuffix(SubSeq(unit.chunks[k].content, 1, n),
                           IF k = 1 THEN <<>> ELSE unit.chunks[k - 1].content)
               /\ unit.chunks[k].content =
                      SubSeq(unit.chunks[k].content, 1, n) \o Flatten(SentencesOf(k))

\* the sentences of the text that are longer than chunkSize
Oversized == { j \in 1..Len(unit.sentences) : Len(unit.sentences[j]) > unit.chunkSize }

\* C18 as stated: no sentence is split, and a sentence longer than
\* chunkSize is a chunk by itself, with no other content.
C18_OversizedSentenceIsAloneInItsChunk ==
    (ChunkTextReturned /\ unit.sentences # <<>>) =>
        /\ WholeSentences
        /\ \A j \in Oversized :
               \E k \in 1..Len(unit.chunks) : unit.chunks[k].content = unit.sentences[j]

\* C18: no sentence is split, and a sentence longer than chunkSize is the
\* only sentence of its chunk: the chunk is that sentence when it is the
\* first sentence of the text, and otherwise the overlap prefix copied from
\* the preceding chunk, without leading whitespace, followed by that sentence.
C18_OversizedSentenceIsTheOnlySentenceOfItsChunk ==
    (ChunkTextReturned /\ unit.sentences # <<>>) =>
        /\ WholeSentences
        /\ \A j \in Oversized :
               \E k \in 1..Len(unit.chunks) :
                   /\ SentencesOf(k) = <<unit.sentences[j]>>
                   /\ unit.seeds[k].i = j - 1
                   /\ j = 1 => unit.chunks[k].content = unit.sentences[j]
                   /\ j > 1 => /\ k > 1
                               /\ unit.chunks[k].content =
                                      trim(unit.seeds[k].overlapText \o unit.sentences[j])
                               /\ IsSuffix(trim(unit.seeds[k].overlapText),
                                           unit.chunks[k - 1].content)

\* a returned call whose text has a sentence longer than chunkSize after
\* another sentence
C18_Witness ==
    /\ ChunkTextReturned
    /\ \E j \in Oversized : j > 1
    /\ Len(unit.chunks) >= 2

(***************************************************************************)
(*                     Properties of cosineSimilarity                      *)
(***************************************************************************)

AllZero(vec) == \A k \in 1..Len(vec.v) : vec.v[k] = 0

\* C19: called on two arrays that differ in length, or of which one holds
\* only zeros, cosineSimilarity returns the number 0: it does not throw and
\* does not return anything else.
C19_DegenerateVectorsScoreZero ==
    (/\ unit.fn = "cosineSimilarity"
     /\ unit.pc # "called"
     /\ ~unit.vecA.null /\ ~unit.vecB.null
     /\ \/ Len(unit.vecA.v) # Len(unit.vecB.v)
        \/ AllZero(unit.vecA)
        \/ AllZero(unit.vecB))
    => /\ unit.pc = "returned"
       /\ unit.result.kind = "num"
       /\ unit.result.dot = 0

(***************************************************************************)
(*                       Properties of the analyzers                       *)
(***************************************************************************)

\* the answer is something the analyzer can return: for the keywords a JSON
\* array of strings, for the summary and the subject a text that is not blank
CanBeUsed(fn, outcome) ==
    IF fn = "extractKeywordsWithGemini"
    THEN outcome = "array of strings"
    ELSE outcome \in Answers \ {"undefined", "blank"}

\* what the analyzer's free method returns for the arguments of the call
FreePath ==
    CASE unit.fn = "extractKeywordsWithGemini" ->
             extractKeywords(unit.text, unit.n, unit.libraryThrows)
      [] unit.fn = "generateSummaryWithGemini" ->
             generateSummary(unit.text, unit.n, unit.libraryThrows)
      [] OTHER -> extractSubject(unit.text, unit.libraryThrows)

\* C20: an analyzer that has been called and is over has returned, not
\* thrown; when generateText failed or gave an answer that cannot be used,
\* it has returned what its free method returns for the same arguments.
C20_AnalyzersFallBackToTheFreePath ==
    (unit.fn \in Analyzers /\ unit.pc \notin {"called", "awaiting"}) =>
        /\ unit.pc = "returned"
        /\ (unit.outcome = "threw" \/ ~CanBeUsed(unit.fn, unit.outcome))
               => unit.result = FreePath

(***************************************************************************)
(*                Properties of the store under degraded chunks            *)
(***************************************************************************)

\* the records the search of task t scans
Candidates(t) ==
    Flatten([i \in DOMAIN fallbackStorage |->
                IF tasks[t].doc # NoDocument /\ fallbackStorage[i].key # tasks[t].doc
                THEN <<>> ELSE fallbackStorage[i].value])

\* C21: a fallback search that scans a record stored without an embedding
\* returns, and returns as many records as the limit and the records that do
\* have an embedding allow.
C21_SearchSurvivesChunkWithoutEmbedding ==
    [][\A t \in Tasks :
          (/\ FallbackSearchFinishes(t)
           /\ \E i \in DOMAIN Candidates(t) : Candidates(t)[i].embedding.null)
          => /\ tasks'[t].phase = "returned"
             /\ Len(tasks'[t].results) >=
                   Min(tasks[t].limit,
                       Cardinality({i \in DOMAIN Candidates(t) :
                                       ~Candidates(t)[i].embedding.null}))]_vars

(***************************************************************************)
(*               Properties of a delete during processing                  *)
(***************************************************************************)

\* C22: a deletion is not undone by the processing run: a record saved as
\* inactive stays inactive, and once the run and the delete request have both
\* finished with the record inactive, the last thing done to the document's
\* records in the vector store is not a store.
C22_RunDoesNotUndoDelete ==
    [][/\ (stored.exists /\ ~stored.isActive) => ~stored'.isActive
       /\ (job'.pc = "done" /\ del'.pc = "done" /\ stored'.exists /\ ~stored'.isActive)
             => /\ latest'[TheDocument].op # "store"
                /\ Records(fallbackStorage', TheDocument) = <<>>]_vars

(***************************************************************************)
(*                 Properties of connect() and the backends                *)
(***************************************************************************)

\* C23: the records the fallback store holds for a document are taken away
\* only by a deleteDocumentChunks call for that document: no other step, a
\* failing connect() included, leaves the document with fewer records.
C23_OnlyDeleteRemovesRecords ==
    [][\A d \in DocIds :
          Len(Records(fallbackStorage', d)) < Len(Records(fallbackStorage, d))
          => \E t \in Tasks :
                /\ tasks[t].phase = "idle"
                /\ tasks'[t].op = "delete"
                /\ tasks'[t].doc = d]_vars

\* C24: a search scoped to a document, or a delete of a document, that is
\* called while the fallback store holds the document's records works on the
\* fallback store, as the store call that wrote them did, and does not fail
\* with the TypeError of a missing client.
C24_CallsAgreeOnTheBackend ==
    [][\A t \in Tasks :
          (/\ tasks[t].phase = "idle"
           /\ tasks'[t].op \in {"search", "delete"}
           /\ tasks'[t].doc # NoDocument
           /\ Records(fallbackStorage, tasks'[t].doc) # <<>>)
          => /\ tasks'[t].viaFallback
             /\ tasks'[t].caught # "TypeError"]_vars

(***************************************************************************)
(*              Properties of the embedding of the chunks                  *)
(***************************************************************************)

\* generateEmbeddings has been called for chunk j of the run
EmbeddingRequested(j) ==
    run.pc \notin {"idle", "extracting"} /\ j <= run.i

\* C25: the embedding requests of a run are launched together and joined
\* before the metadata: while the run waits for the embedding of one chunk the
\* request of every chunk has been issued; when the run has reached the
\* metadata every chunk has been processed; and the chunks whose own
\* embedding did not fail carry their embedding.
C25_EmbeddingsAreConcurrent ==
    /\ (run.pc = "embedding" /\ calls[RunCaller].state = "awaiting")
          => \A j \in 1..Len(run.chunks) : EmbeddingRequested(j)
    /\ run.pc \in {"subject", "keywords", "summary"}
          => Len(run.processedChunks) = Len(run.chunks)
    /\ \A k \in 1..Len(run.processedChunks) :
          k \notin run.failed => run.processedChunks[k].embedding # "null"

(***************************************************************************)
(*                   Properties of the rotation pointer                    *)
(***************************************************************************)

\* call c settles in this step with resp and retries
Retries(c) ==
    /\ calls[c].state = "awaiting"
    /\ Len(calls'[c].answers) = Len(calls[c].answers) + 1
    /\ calls'[c].answers[Len(calls'[c].answers)] = "http429"
    /\ calls'[c].retryCount = calls[c].retryCount + 1

C27_ChunksFitChunkSize ==
    (ChunkTextReturned /\ Oversized = {}) =>
        \A k \in 1..Len(unit.chunks) :
            /\ unit.chunks[k].length <= unit.chunkSize
            /\ Len(unit.chunks[k].content) <= unit.chunkSize

\* C28: start and end of every chunk chunkText returns are its offsets:
\* end - start = length, the first chunk starts at 0, and every later chunk
\* starts after its predecessor, at the predecessor's end less the length of
\* the overlap prefix.
C28_OffsetsLocateTheChunks ==
    ChunkTextReturned =>
        /\ \A k \in 1..Len(unit.chunks) :
               unit.chunks[k].end - unit.chunks[k].start = unit.chunks[k].length
        /\ unit.chunks # <<>> => unit.chunks[1].start = 0
        /\ \A k \in 2..Len(unit.chunks) :
               /\ unit.chunks[k].start > unit.chunks[k - 1].start
               /\ unit.chunks[k].start =
                      unit.chunks[k - 1].end - Len(unit.seeds[k].overlapText)

(***************************************************************************)
(*                   Properties of calculateReadability                    *)
(***************************************************************************)

\* the band of a score
Band(score) ==
    IF score >= 90 THEN "Very Easy"
    ELSE IF score >= 80 THEN "Easy"
    ELSE IF score >= 70 THEN "Fairly Easy"
    ELSE IF score >= 60 THEN "Standard"
    ELSE IF score >= 50 THEN "Fairly Difficult"
    ELSE IF score >= 30 THEN "Difficult"
    ELSE "Very Difficult"

\* C29: the level calculateReadability returns is the band of the score it
\* returns.
C29_LevelIsTheBandOfTheScore ==
    (unit.fn = "calculateReadability" /\ unit.pc = "returned") =>
        unit.result.level = Band(unit.result.score)

(***************************************************************************)
(*                     Properties of extractFromImage                      *)
(***************************************************************************)

\* C30: when the preprocessing of the image failed, the OCR is run on the
\* original path, and extractFromImage ends as the OCR of the original image
\* makes it end: with its text, or with the error of a failed extraction.
C30_PreprocessingFailureIsAbsorbed ==
    (unit.fn = "extractFromImage" /\ unit.preprocessing = "failed") =>
        /\ unit.pc \in {"recognizing", "returned", "threw"}
        /\ unit.pc = "recognizing" =>
              /\ unit.processedImagePath = unit.filePath
              /\ unit.recognized = unit.source
        /\ unit.pc \in {"returned", "threw"} =>
              /\ unit.processedImagePath = unit.filePath
              /\ unit.recognized = unit.source
              /\ unit.result = extractFrom("image", unit.source)

\* the preprocessing failed and extractFromImage returned the text of the
\* original image
C30_TextAfterFailedPreprocessing ==
    /\ unit.fn = "extractFromImage"
    /\ unit.preprocessing = "failed"
    /\ unit.pc = "returned"
    /\ unit.result = Ok("text")
    /\ ProcessedPath(unit.filePath) # unit.filePath

====
